---- MODULE Spec2Model ----
(***************************************************************************)
(* The two scripts of the repository as one state machine.                 *)
(*                                                                         *)
(*   src/src/training_pipeline/finetune.py   DatasetClient, finetune,      *)
(*       inference, save_model, check_if_huggingface_model_exists and the  *)
(*       __main__ block of the training script                             *)
(*   src/6-bonus-superlinked-rag/retriever.py   the retrieval script       *)
(*                                                                         *)
(* A behaviour starts at pc = "start" and enters one program: one of the   *)
(* two scripts, or a direct call of finetune, save_model or                *)
(* check_if_huggingface_model_exists with arguments drawn from small sets. *)
(* Every call into a third-party library is one step that either returns   *)
(* or raises; what it returns is chosen by the environment.  calls is the  *)
(* history of those library calls in the order the program made them.      *)
(***************************************************************************)
EXTENDS Integers, Sequences, FiniteSets, TLC

VARIABLES
    pc,                \* the statement the program is at
    entry,             \* the program that was entered
    args,              \* argparse's namespace in the training script
    stdout,            \* the lines printed
    ft_args,           \* the arguments finetune was called with
    ft,                \* finetune's locals: num_train_epochs, is_dummy, EOS_TOKEN
    experiment_ended,  \* how often self.experiment.end() was called
    artifact,          \* what _download_artifact returned: None, or the assets
    asset,             \* what _artifact_to_asset returned
    custom_dataset,    \* what download_dataset returned
    static_dataset,    \* what load_dataset returned
    dataset,           \* finetune's local `dataset`
    trainer,           \* what SFTTrainer was constructed with
    sm,                \* save_model's arguments
    chk,               \* check_if_huggingface_model_exists' arguments
    hits,              \* the retrieval script's `hits`
    reranked_hits,     \* the retrieval script's `reranked_hits`
    retrieve_args,     \* the arguments retrieve_top_k was called with
    rerank_args,       \* the arguments rerank was called with
    log,               \* the logger.info lines of the retrieval script
    calls,             \* the library calls made so far, in order
    error,             \* the exception that ended the program, "" when none
    ret                \* what the directly called function returned

vars == <<pc, entry, args, stdout, ft_args, ft, experiment_ended, artifact, asset,
          custom_dataset, static_dataset, dataset, trainer, sm, chk, hits,
          reranked_hits, retrieve_args, rerank_args, log, calls, error, ret>>

trainVars == <<ft, experiment_ended, artifact, asset, custom_dataset,
               static_dataset, dataset, trainer>>
scriptVars == <<entry, args, ft_args>>
retrVars == <<hits, reranked_hits, retrieve_args, rerank_args, log>>

-----------------------------------------------------------------------------
(* Bounds of the model *)

MaxEpochs == 3      \* --num_train_epochs / num_train_epochs range over 1..MaxEpochs
MaxCustom == 2      \* records in the artifact's JSON file: 0..MaxCustom
MaxAssets == 2      \* assets of the downloaded artifact: 0..MaxAssets
MaxHits == 2        \* length of the lists retrieve_top_k and rerank return

(* Constants of the program *)

DefaultNumTrainEpochs == 3
DummyEpochs == 1
DummySize == 400
StaticSize == 10000
TestPercent == 5
RetrieveK == 6
ExpandToNQueries == 3
KeepTopK == 3
LogPreview == 100

-----------------------------------------------------------------------------
(* Python values *)

\* Optional[str]: <<>> is None, <<s>> is the str s.
None == <<>>
Some(s) == <<s>>

\* bool(x) of an Optional[str]: None and "" are falsy.
Truthy(opt) == opt # None /\ opt[1] # ""

\* argparse's type=bool applied to the option's string: bool(s).
ArgparseBool(s) == s # ""

\* str(b) of a bool.
PyStrBool(b) == IF b THEN "True" ELSE "False"

Min(a, b) == IF a <= b THEN a ELSE b

\* s[:n]
Prefix(s, n) == SubSeq(s, 1, Min(n, Len(s)))

Range(s) == {s[i] : i \in 1..Len(s)}

\* The positions of event e in the call history h.
Pos(h, e) == {i \in 1..Len(h) : h[i] = e}
Count(h, e) == Cardinality(Pos(h, e))
\* Every e2 in h has an e1 before it.
Precedes(h, e1, e2) == \A j \in Pos(h, e2) : \E i \in Pos(h, e1) : i < j

-----------------------------------------------------------------------------
(* Datasets: a function from column names to equally long columns. *)

NoDataset == [c \in {} |-> <<>>]

column_names(ds) == DOMAIN ds

NumRows(ds) == IF DOMAIN ds = {} THEN 0 ELSE Len(ds[CHOOSE c \in DOMAIN ds : TRUE])

\* The cell of row i, column c of the dataset that came from `origin`.
Cell(origin, c, i) == origin \o "." \o c \o "." \o ToString(i)

\* The column sets the artifact's JSON records may carry (data[0].keys()).
ColumnSets == {{"instruction", "content"},
               {"instruction", "content", "author_id"},
               {"instruction"}}

\* concatenate_datasets([a, b]): a's rows followed by b's, column by column.
concatenate_datasets(a, b) == [c \in DOMAIN a |-> a[c] \o b[c]]

\* dataset.select(range(n)): the first n rows.
Select(ds, n) == [c \in DOMAIN ds |-> SubSeq(ds[c], 1, n)]

-----------------------------------------------------------------------------
(* DatasetClient *)

\* How the two library calls of _download_artifact may end.
DownloadOutcomes == {"ok", "get_artifact raises", "download raises"}

\* _download_artifact with try/finally: the experiment is ended on every path.
download_artifact_Finally(outcome) ==
    IF outcome = "ok"
    THEN [calls |-> <<"get_artifact", "download", "experiment.end">>, raised |-> ""]
    ELSE IF outcome = "get_artifact raises"
    THEN [calls |-> <<"get_artifact", "experiment.end">>,
          raised |-> "get_artifact raised"]
    ELSE [calls |-> <<"get_artifact", "download", "experiment.end">>,
          raised |-> "download raised"]

\* _download_artifact: the library calls it makes and the exception it lets
\* through, by outcome.  The except clause prints and re-raises;
\* self.experiment.end() comes after the try statement.
download_artifact(outcome) ==
    IF outcome = "ok"
    THEN [calls |-> <<"get_artifact", "download", "experiment.end">>, raised |-> ""]
    ELSE IF outcome = "get_artifact raises"
    THEN [calls |-> <<"get_artifact">>, raised |-> "get_artifact raised"]
    ELSE [calls |-> <<"get_artifact", "download">>, raised |-> "download raised"]

\* _artifact_to_asset: the asset it returns, or the error it raises.
ArtifactToAsset_NoUpperGuard(assets) ==
    IF Len(assets) = 0
    THEN [raised |-> "RuntimeError: Artifact has no assets", asset |-> None]
    ELSE [raised |-> "", asset |-> Some(assets[1])]

ArtifactToAsset(assets) ==
    IF Len(assets) = 0
    THEN [raised |-> "RuntimeError: Artifact has no assets", asset |-> None]
    ELSE IF Len(assets) > 1
    THEN [raised |-> "RuntimeError: Artifact has more than one asset", asset |-> None]
    ELSE [raised |-> "", asset |-> Some(assets[1])]

\* _load_data: the dataset of the n records of the asset's file, whose keys
\* are cols; data[0] of an empty list raises IndexError.
LoadData(n, cols) ==
    IF n = 0
    THEN [raised |-> "IndexError", dataset |-> NoDataset]
    ELSE [raised |-> "",
          dataset |-> [c \in cols |-> [i \in 1..n |-> Cell("custom", c, i)]]]

-----------------------------------------------------------------------------
(* finetune *)

ALPACA_HEAD == "Below is an instruction that describes a task. Write a response that appropriately completes the request.\n\n### Instruction:\n"
ALPACA_MID == "\n\n### Response:\n"

\* ALPACA_TEMPLATE.format(a, b): the two {} filled in order.
ALPACA_TEMPLATE_format(a, b) == ALPACA_HEAD \o a \o ALPACA_MID \o b

\* The tokenizer's eos_token, as load_model returns it.
EosTokens == {"<|im_end|>", "</s>"}

\* The order of finetune's statements.
FinetuneOrder_TrainFirst ==
    <<"load_model", "train", "new_client", "download_artifact", "artifact_to_asset",
      "load_data", "load_static", "concatenate", "map", "split",
      "new_trainer", "return">>

FinetuneOrder ==
    <<"load_model", "new_client", "download_artifact", "artifact_to_asset",
      "load_data", "load_static", "concatenate", "map", "split",
      "new_trainer", "train", "return">>

FtNext(step) ==
    LET i == CHOOSE k \in 1..Len(FinetuneOrder) : FinetuneOrder[k] = step
    IN  FinetuneOrder[i + 1]

\* Lines 159-160: the epochs finetune goes on with.
EffectiveEpochs_NoOverride(num_train_epochs, is_dummy) == num_train_epochs

EffectiveEpochs(num_train_epochs, is_dummy) ==
    IF is_dummy = TRUE THEN DummyEpochs ELSE num_train_epochs

\* Lines 161-164: what the dummy-mode branch prints.
DummyModeLines(is_dummy) ==
    IF is_dummy = TRUE
    THEN <<"Training in dummy mode. Setting num_train_epochs to '"
              \o ToString(DummyEpochs) \o "'",
           "Training in dummy mode. Reducing dataset size to '400'.">>
    ELSE <<>>

\* Lines 182-183: the dataset finetune goes on with.
DummySelect(ds, is_dummy) ==
    IF is_dummy THEN Select(ds, DummySize) ELSE ds

\* format_samples_sft: zip(..., strict=False) stops at the shorter column.
format_samples_sft_NoEos(examples, EOS_TOKEN) ==
    LET n == Min(Len(examples["instruction"]), Len(examples["content"]))
    IN  [c \in {"text"} |->
            [i \in 1..n |->
                ALPACA_TEMPLATE_format(examples["instruction"][i],
                                       examples["content"][i])]]

format_samples_sft(examples, EOS_TOKEN) ==
    LET n == Min(Len(examples["instruction"]), Len(examples["content"]))
    IN  [c \in {"text"} |->
            [i \in 1..n |->
                ALPACA_TEMPLATE_format(examples["instruction"][i],
                                       examples["content"][i]) \o EOS_TOKEN]]

\* dataset.map(f, batched=True, remove_columns=dataset.column_names): f is
\* given the batch's columns; the removed columns are dropped from the result
\* and f's columns are added.
Map(ds, remove_columns, EOS_TOKEN) ==
    LET out == format_samples_sft(ds, EOS_TOKEN)
        kept == column_names(ds) \ remove_columns
    IN  [c \in kept \cup DOMAIN out |-> IF c \in DOMAIN out THEN out[c] ELSE ds[c]]

\* train_test_split(test_size=0.05): the sizes of the two parts.
TestSize(n) == (n * TestPercent + 99) \div 100

-----------------------------------------------------------------------------
(* save_model *)

\* Line 252: whether save_model pushes after the local save.
ShouldPush_IgnoresRepoId(push_to_hub, repo_id) == push_to_hub

ShouldPush(push_to_hub, repo_id) == push_to_hub /\ Truthy(repo_id)

-----------------------------------------------------------------------------
(* check_if_huggingface_model_exists *)

\* How api.model_info(model_id) may end.
LookupOutcomes == {"ok", "RepositoryNotFoundError", "HTTPError"}

\* With a bare except: every failure becomes the default.
check_model_BareExcept(model_id, default_value, lookup) ==
    IF lookup = "ok"
    THEN [raised |-> "", value |-> Some(model_id)]
    ELSE [raised |-> "", value |-> Some(default_value)]

\* Lines 257-270: what the function returns, or the exception it lets through.
check_model(model_id, default_value, lookup) ==
    IF lookup = "ok"
    THEN [raised |-> "", value |-> Some(model_id)]
    ELSE IF lookup = "RepositoryNotFoundError"
    THEN [raised |-> "", value |-> Some(default_value)]
    ELSE [raised |-> lookup, value |-> None]

ModelIds == {"mlabonne/TwinLlama-3.1-8B", "someone/missing-model"}
DefaultValues == {"mlabonne/TwinLlama-3.1-8B", "someone/fallback"}

-----------------------------------------------------------------------------
(* The retrieval script *)

\* A text of n characters.
Text(ch, n) == [i \in 1..n |-> ch]

\* The passages the retriever may return: shorter than, as long as and longer
\* than the logged preview.
DocPool == {Text("a", 3), Text("b", LogPreview), Text("c", LogPreview + 20)}

DocLists == UNION {[1..n -> DocPool] : n \in 0..MaxHits}

\* The order of the script's statements.
RetrieverOrder_RerankFirst ==
    <<"construct", "rerank", "retrieve_top_k", "log_header", "log_hits">>

RetrieverOrder ==
    <<"construct", "retrieve_top_k", "rerank", "log_header", "log_hits">>

RtNext(step) ==
    LET i == CHOOSE k \in 1..Len(RetrieverOrder) : RetrieverOrder[k] = step
    IN  RetrieverOrder[i + 1]

\* Line 20: the arguments of retrieve_top_k.
RetrieveArgs == [k |-> RetrieveK, to_expand_to_n_queries |-> ExpandToNQueries]

\* Line 22: the arguments of rerank.
RerankArgs(h) == [documents |-> h, keep_top_k |-> KeepTopK]

\* Line 26: f"{rank}: {hit[:100]}..."
HitLine(rank, hit) ==
    [kind |-> "hit", rank |-> rank, text |-> Prefix(hit, LogPreview) \o Text(".", 3)]

HeaderLine == [kind |-> "header", rank |-> 0, text |-> <<>>]

\* Line 25: enumerate(reranked_hits) pairs the i-th hit (from 1) with rank i - 1.
EnumerateRank(i) == i - 1

-----------------------------------------------------------------------------
(* The training script's command line *)

\* The value of an absent option.
Absent == <<>>

\* parser.parse_args(): the namespace of the options given.
ParseArgs(epochs_opt, dummy_opt, ws_opt) ==
    [num_train_epochs |->
        IF epochs_opt = Absent THEN DefaultNumTrainEpochs ELSE epochs_opt[1],
     is_dummy |->
        IF dummy_opt = Absent THEN FALSE ELSE ArgparseBool(dummy_opt[1]),
     model_output_huggingface_workspace |->
        IF ws_opt = Absent THEN "mlabonne" ELSE ws_opt[1]]

\* Lines 326-333: the arguments __main__ calls finetune with; is_dummy is not
\* among them, so finetune's default (line 144) applies.
FinetuneDefaultIsDummy == TRUE

MainFinetuneArgs(a) ==
    [num_train_epochs |-> a.num_train_epochs,
     is_dummy |-> FinetuneDefaultIsDummy]

\* Lines 336-345: the arguments __main__ calls save_model with.
MainSaveModelArgs(a) ==
    [push_to_hub |-> TRUE,
     repo_id |-> Some(a.model_output_huggingface_workspace \o "/LLMTwinLlama-3.1-8B")]

\* Lines 305, 314: two of the start-up lines.
StartupLines(a) ==
    <<"Num training epochs: '" \o ToString(a.num_train_epochs) \o "'",
      "Training in dummy mode? '" \o PyStrBool(a.is_dummy) \o "'">>

\* finetune's locals on entry.
FinetuneLocals(call) ==
    [num_train_epochs |-> call.num_train_epochs,
     is_dummy |-> call.is_dummy,
     EOS_TOKEN |-> ""]

NoArgs == [num_train_epochs |-> 0, is_dummy |-> FALSE,
           model_output_huggingface_workspace |-> ""]
NoFtArgs == [num_train_epochs |-> 0, is_dummy |-> FALSE]
NoRetrieveArgs == [k |-> 0, to_expand_to_n_queries |-> 0]
NoRerankArgs == [documents |-> <<>>, keep_top_k |-> 0]
NoFt == [num_train_epochs |-> 0, is_dummy |-> FALSE, EOS_TOKEN |-> ""]
NoTrainer == [num_train_epochs |-> 0, n_train |-> 0, n_test |-> 0]
NoSm == [push_to_hub |-> FALSE, repo_id |-> None]
NoChk == [model_id |-> "", default_value |-> "", lookup |-> ""]

-----------------------------------------------------------------------------
Init ==
    /\ pc = "start"
    /\ entry = ""
    /\ args = NoArgs
    /\ stdout = <<>>
    /\ ft_args = NoFtArgs
    /\ ft = NoFt
    /\ experiment_ended = 0
    /\ artifact = None
    /\ asset = None
    /\ custom_dataset = NoDataset
    /\ static_dataset = NoDataset
    /\ dataset = NoDataset
    /\ trainer = NoTrainer
    /\ sm = NoSm
    /\ chk = NoChk
    /\ hits = <<>>
    /\ reranked_hits = <<>>
    /\ retrieve_args = NoRetrieveArgs
    /\ rerank_args = NoRerankArgs
    /\ log = <<>>
    /\ calls = <<>>
    /\ error = ""
    /\ ret = None

\* An exception leaves the function and, uncaught, ends the program.
Raise(e) == pc' = "raised" /\ error' = e

Called(e) == calls' = Append(calls, e)

-----------------------------------------------------------------------------
(* Entering the training script: lines 273-333 *)

RunTrainingScript ==
    /\ pc = "start"
    /\ entry' = "training_script"
    /\ \/ /\ \E epochs_opt \in {Absent} \cup {<<n>> : n \in 1..MaxEpochs},
                dummy_opt \in {Absent, <<"True">>, <<"False">>, <<"">>},
                ws_opt \in {Absent, <<"">>} :
                LET a == ParseArgs(epochs_opt, dummy_opt, ws_opt) IN
                /\ args' = a
                /\ stdout' = StartupLines(a)
                /\ ft_args' = MainFinetuneArgs(a)
                /\ ft' = FinetuneLocals(MainFinetuneArgs(a))
          /\ pc' = FinetuneOrder[1]
          /\ UNCHANGED error
       \/ \* Lines 298-301: os.environ[...] of an unset SageMaker variable.
          /\ Raise("KeyError: 'SM_OUTPUT_DATA_DIR'")
          /\ UNCHANGED <<args, stdout, ft_args, ft>>
    /\ UNCHANGED <<experiment_ended, artifact, asset, custom_dataset,
                   static_dataset, dataset, trainer, sm, chk, retrVars,
                   calls, ret>>

\* A direct call finetune(..., num_train_epochs=n, is_dummy=d).
CallFinetune ==
    /\ pc = "start"
    /\ \E n \in 1..MaxEpochs, d \in BOOLEAN :
          LET call == [num_train_epochs |-> n, is_dummy |-> d] IN
          ft_args' = call /\ ft' = FinetuneLocals(call)
    /\ entry' = "finetune"
    /\ pc' = FinetuneOrder[1]
    /\ UNCHANGED <<args, stdout, experiment_ended, artifact, asset, custom_dataset,
                   static_dataset, dataset, trainer, sm, chk, retrVars,
                   calls, error, ret>>

-----------------------------------------------------------------------------
(* finetune: lines 146-224 *)

\* Lines 146-164: load_model, EOS_TOKEN, the dummy-mode override.
LoadModel ==
    /\ pc = "load_model"
    /\ Called("load_model")
    /\ \/ /\ \E eos \in EosTokens :
                ft' = [ft EXCEPT !.EOS_TOKEN = eos,
                                 !.num_train_epochs =
                                     EffectiveEpochs(ft.num_train_epochs, ft.is_dummy)]
          /\ stdout' = stdout \o DummyModeLines(ft.is_dummy)
          /\ pc' = FtNext("load_model")
          /\ UNCHANGED error
       \/ /\ Raise("load_model raised")
          /\ UNCHANGED <<ft, stdout>>
    /\ UNCHANGED <<scriptVars, experiment_ended, artifact, asset, custom_dataset,
                   static_dataset, dataset, trainer, sm, chk, retrVars, ret>>

\* Line 176, lines 28-40: DatasetClient() creates the Experiment.
NewDatasetClient ==
    /\ pc = "new_client"
    /\ Called("Experiment")
    /\ \/ pc' = FtNext("new_client") /\ UNCHANGED error
       \/ Raise("Experiment raised")
    /\ UNCHANGED <<scriptVars, stdout, trainVars, sm, chk, retrVars, ret>>

\* Lines 43, 49-62: _download_artifact.
DownloadArtifact ==
    /\ pc = "download_artifact"
    /\ \E outcome \in DownloadOutcomes, n \in 0..MaxAssets :
          LET r == download_artifact(outcome) IN
          /\ calls' = calls \o r.calls
          /\ experiment_ended' = experiment_ended + Count(r.calls, "experiment.end")
          /\ IF r.raised # ""
             THEN Raise(r.raised) /\ UNCHANGED artifact
             ELSE /\ artifact' = Some([i \in 1..n |-> i])
                  /\ pc' = FtNext("download_artifact")
                  /\ UNCHANGED error
    /\ UNCHANGED <<scriptVars, stdout, ft, asset, custom_dataset, static_dataset,
                   dataset, trainer, sm, chk, retrVars, ret>>

\* Lines 44, 64-72: _artifact_to_asset.
ArtifactToAssetStep ==
    /\ pc = "artifact_to_asset"
    /\ LET r == ArtifactToAsset(artifact[1]) IN
          IF r.raised # ""
          THEN Raise(r.raised) /\ UNCHANGED asset
          ELSE asset' = r.asset /\ pc' = FtNext("artifact_to_asset") /\ UNCHANGED error
    /\ UNCHANGED <<scriptVars, stdout, ft, experiment_ended, artifact, custom_dataset,
                   static_dataset, dataset, trainer, sm, chk, retrVars, calls, ret>>

\* Lines 45, 74-86: _load_data, and download_dataset's return.
LoadDataStep ==
    /\ pc = "load_data"
    /\ Called("_load_data")
    /\ \/ \E n \in 0..MaxCustom, cols \in ColumnSets :
             LET r == LoadData(n, cols) IN
             IF r.raised # ""
             THEN Raise(r.raised) /\ UNCHANGED custom_dataset
             ELSE /\ custom_dataset' = r.dataset
                  /\ pc' = FtNext("load_data")
                  /\ UNCHANGED error
       \/ /\ Raise("open raised")
          /\ UNCHANGED custom_dataset
    /\ UNCHANGED <<scriptVars, stdout, ft, experiment_ended, artifact, asset,
                   static_dataset, dataset, trainer, sm, chk, retrVars, ret>>

\* Line 180: load_dataset("mlabonne/FineTome-Alpaca-100k", split="train[:10000]").
\* Its columns are taken to be those of the custom dataset, which is what
\* concatenate_datasets needs.
LoadStatic ==
    /\ pc = "load_static"
    /\ Called("load_dataset")
    /\ \/ /\ static_dataset' =
                [c \in column_names(custom_dataset) |->
                    [i \in 1..StaticSize |-> Cell("static", c, i)]]
          /\ pc' = FtNext("load_static")
          /\ UNCHANGED error
       \/ /\ Raise("load_dataset raised")
          /\ UNCHANGED static_dataset
    /\ UNCHANGED <<scriptVars, stdout, ft, experiment_ended, artifact, asset,
                   custom_dataset, dataset, trainer, sm, chk, retrVars, ret>>

\* Lines 181-184: concatenate_datasets and the dummy-mode select.
Concatenate ==
    /\ pc = "concatenate"
    /\ calls' = calls \o <<"concatenate_datasets">>
                      \o (IF ft.is_dummy THEN <<"select">> ELSE <<>>)
    /\ dataset' = DummySelect(concatenate_datasets(custom_dataset, static_dataset),
                              ft.is_dummy)
    /\ pc' = FtNext("concatenate")
    /\ UNCHANGED <<scriptVars, stdout, ft, experiment_ended, artifact, asset,
                   custom_dataset, static_dataset, trainer, sm, chk, retrVars,
                   error, ret>>

\* Lines 186-188: dataset.map(format_samples_sft, ...); examples["content"]
\* of a dataset without that column raises KeyError.
MapFormat ==
    /\ pc = "map"
    /\ Called("map")
    /\ IF {"instruction", "content"} \subseteq column_names(dataset)
       THEN /\ dataset' = Map(dataset, column_names(dataset), ft.EOS_TOKEN)
            /\ pc' = FtNext("map")
            /\ UNCHANGED error
       ELSE Raise("KeyError") /\ UNCHANGED dataset
    /\ UNCHANGED <<scriptVars, stdout, ft, experiment_ended, artifact, asset,
                   custom_dataset, static_dataset, trainer, sm, chk, retrVars, ret>>

\* Line 189: dataset.train_test_split(test_size=0.05).  The split shuffles at
\* random; the model keeps the sizes of the two parts (see NewTrainer).
Split ==
    /\ pc = "split"
    /\ Called("train_test_split")
    /\ pc' = FtNext("split")
    /\ UNCHANGED <<scriptVars, stdout, trainVars, sm, chk, retrVars, error, ret>>

\* Lines 194-220: SFTTrainer(..., args=TrainingArguments(num_train_epochs=...)).
NewTrainer ==
    /\ pc = "new_trainer"
    /\ Called("SFTTrainer")
    /\ \/ /\ trainer' = [num_train_epochs |-> ft.num_train_epochs,
                         n_train |-> NumRows(dataset) - TestSize(NumRows(dataset)),
                         n_test |-> TestSize(NumRows(dataset))]
          /\ pc' = FtNext("new_trainer")
          /\ UNCHANGED error
       \/ /\ Raise("SFTTrainer raised")
          /\ UNCHANGED trainer
    /\ UNCHANGED <<scriptVars, stdout, ft, experiment_ended, artifact, asset,
                   custom_dataset, static_dataset, dataset, sm, chk, retrVars, ret>>

\* Line 222: trainer.train().
Train ==
    /\ pc = "train"
    /\ Called("train")
    /\ \/ pc' = FtNext("train") /\ UNCHANGED error
       \/ Raise("train raised")
    /\ UNCHANGED <<scriptVars, stdout, trainVars, sm, chk, retrVars, ret>>

\* Line 224: return model, tokenizer; in the script, on to inference.
FinetuneReturn ==
    /\ pc = "return"
    /\ IF entry = "training_script"
       THEN pc' = "inference" /\ UNCHANGED ret
       ELSE pc' = "done" /\ ret' = Some("model, tokenizer")
    /\ UNCHANGED <<scriptVars, stdout, trainVars, sm, chk, retrVars, calls, error>>

\* Line 334, lines 227-240: inference(model, tokenizer); then the arguments
\* of save_model (lines 336-345).
Inference ==
    /\ pc = "inference"
    /\ Called("inference")
    /\ \/ /\ sm' = MainSaveModelArgs(args)
          /\ pc' = "save_local"
          /\ UNCHANGED error
       \/ /\ Raise("inference raised")
          /\ UNCHANGED sm
    /\ UNCHANGED <<scriptVars, stdout, trainVars, chk, retrVars, ret>>

-----------------------------------------------------------------------------
(* save_model: lines 243-254 *)

\* A direct call save_model(model, tokenizer, output_dir, push_to_hub, repo_id).
CallSaveModel ==
    /\ pc = "start"
    /\ \E p \in BOOLEAN, r \in {None, Some(""), Some("mlabonne/LLMTwinLlama-3.1-8B")} :
          sm' = [push_to_hub |-> p, repo_id |-> r]
    /\ entry' = "save_model"
    /\ pc' = "save_local"
    /\ UNCHANGED <<args, ft_args, stdout, trainVars, chk, retrVars, calls, error, ret>>

\* Line 250: model.save_pretrained_merged(...), then the test of line 252.
SaveLocal ==
    /\ pc = "save_local"
    /\ Called("save_pretrained_merged")
    /\ \/ /\ pc' = IF ShouldPush(sm.push_to_hub, sm.repo_id) THEN "push" ELSE "done"
          /\ UNCHANGED error
       \/ Raise("save_pretrained_merged raised")
    /\ UNCHANGED <<scriptVars, stdout, trainVars, sm, chk, retrVars, ret>>

\* Lines 253-254: model.push_to_hub_merged(repo_id, ...).
PushToHub ==
    /\ pc = "push"
    /\ Called("push_to_hub_merged")
    /\ stdout' = Append(stdout, "Saving model to '" \o sm.repo_id[1] \o "'")
    /\ \/ pc' = "done" /\ UNCHANGED error
       \/ Raise("push_to_hub_merged raised")
    /\ UNCHANGED <<scriptVars, trainVars, sm, chk, retrVars, ret>>

-----------------------------------------------------------------------------
(* check_if_huggingface_model_exists: lines 257-270 *)

\* A direct call check_if_huggingface_model_exists(model_id, default_value).
CallCheckModel ==
    /\ pc = "start"
    /\ \E m \in ModelIds, d \in DefaultValues :
          chk' = [model_id |-> m, default_value |-> d, lookup |-> ""]
    /\ entry' = "check_model"
    /\ pc' = "model_info"
    /\ UNCHANGED <<args, ft_args, stdout, trainVars, sm, retrVars, calls, error, ret>>

\* Lines 262-270: api.model_info(model_id) and what follows from how it ends.
ModelInfo ==
    /\ pc = "model_info"
    /\ Called("model_info")
    /\ \E lookup \in LookupOutcomes :
          LET r == check_model(chk.model_id, chk.default_value, lookup) IN
          /\ chk' = [chk EXCEPT !.lookup = lookup]
          /\ stdout' = stdout \o
                (IF r.raised = "" /\ lookup # "ok"
                 THEN <<"Model '" \o chk.model_id \o "' does not exist.",
                        "Defaulting to '" \o r.value[1] \o "'">>
                 ELSE <<>>)
          /\ IF r.raised # ""
             THEN Raise(r.raised) /\ UNCHANGED ret
             ELSE ret' = r.value /\ pc' = "done" /\ UNCHANGED error
    /\ UNCHANGED <<scriptVars, trainVars, sm, retrVars>>

-----------------------------------------------------------------------------
(* The retrieval script: retriever.py lines 11-26 *)

RunRetrieverScript ==
    /\ pc = "start"
    /\ entry' = "retriever_script"
    /\ pc' = RetrieverOrder[1]
    /\ UNCHANGED <<args, ft_args, stdout, trainVars, sm, chk, retrVars, calls,
                   error, ret>>

\* Line 19: VectorRetriever(query=query).
ConstructRetriever ==
    /\ pc = "construct"
    /\ Called("VectorRetriever")
    /\ \/ pc' = RtNext("construct") /\ UNCHANGED error
       \/ Raise("VectorRetriever raised")
    /\ UNCHANGED <<scriptVars, stdout, trainVars, sm, chk, retrVars, ret>>

\* Line 20: hits = retriever.retrieve_top_k(k=6, to_expand_to_n_queries=3).
RetrieveTopK ==
    /\ pc = "retrieve_top_k"
    /\ Called("retrieve_top_k")
    /\ retrieve_args' = RetrieveArgs
    /\ \/ /\ \E h \in DocLists : hits' = h
          /\ pc' = RtNext("retrieve_top_k")
          /\ UNCHANGED error
       \/ /\ Raise("retrieve_top_k raised")
          /\ UNCHANGED hits
    /\ UNCHANGED <<scriptVars, stdout, trainVars, sm, chk, reranked_hits,
                   rerank_args, log, ret>>

\* Line 22: reranked_hits = retriever.rerank(documents=hits, keep_top_k=3).
Rerank ==
    /\ pc = "rerank"
    /\ Called("rerank")
    /\ rerank_args' = RerankArgs(hits)
    /\ \/ /\ \E r \in DocLists : reranked_hits' = r
          /\ pc' = RtNext("rerank")
          /\ UNCHANGED error
       \/ /\ Raise("rerank raised")
          /\ UNCHANGED reranked_hits
    /\ UNCHANGED <<scriptVars, stdout, trainVars, sm, chk, hits, retrieve_args,
                   log, ret>>

\* Line 24: logger.info("Reranked hits:").
LogHeader ==
    /\ pc = "log_header"
    /\ log' = Append(log, HeaderLine)
    /\ pc' = RtNext("log_header")
    /\ UNCHANGED <<scriptVars, stdout, trainVars, sm, chk, hits, reranked_hits,
                   retrieve_args, rerank_args, calls, error, ret>>

\* Lines 25-26: one iteration of the loop over enumerate(reranked_hits).
LogHit ==
    /\ pc = "log_hits"
    /\ LET i == Cardinality({j \in 1..Len(log) : log[j].kind = "hit"}) + 1 IN
          /\ i <= Len(reranked_hits)
          /\ log' = Append(log, HitLine(EnumerateRank(i), reranked_hits[i]))
    /\ UNCHANGED <<pc, scriptVars, stdout, trainVars, sm, chk, hits, reranked_hits,
                   retrieve_args, rerank_args, calls, error, ret>>

\* The loop is exhausted and the script ends.
LogDone ==
    /\ pc = "log_hits"
    /\ Cardinality({j \in 1..Len(log) : log[j].kind = "hit"}) = Len(reranked_hits)
    /\ pc' = "done"
    /\ UNCHANGED <<scriptVars, stdout, trainVars, sm, chk, retrVars, calls, error, ret>>

-----------------------------------------------------------------------------
Next ==
    \/ RunTrainingScript
    \/ CallFinetune
    \/ LoadModel
    \/ NewDatasetClient
    \/ DownloadArtifact
    \/ ArtifactToAssetStep
    \/ LoadDataStep
    \/ LoadStatic
    \/ Concatenate
    \/ MapFormat
    \/ Split
    \/ NewTrainer
    \/ Train
    \/ FinetuneReturn
    \/ Inference
    \/ CallSaveModel
    \/ SaveLocal
    \/ PushToHub
    \/ CallCheckModel
    \/ ModelInfo
    \/ RunRetrieverScript
    \/ ConstructRetriever
    \/ RetrieveTopK
    \/ Rerank
    \/ LogHeader
    \/ LogHit
    \/ LogDone

Spec == Init /\ [][Next]_vars

-----------------------------------------------------------------------------
(* Properties *)

IsPrefix(s, t) == Len(s) <= Len(t) /\ s = SubSeq(t, 1, Len(s))

InFinetune == entry \in {"training_script", "finetune"}

\* The library calls of a finetune call that reaches trainer.train(), in order.
FinetuneCalls(is_dummy) ==
    <<"load_model", "Experiment", "get_artifact", "download", "experiment.end",
      "_load_data", "load_dataset", "concatenate_datasets">>
    \o (IF is_dummy THEN <<"select">> ELSE <<>>)
    \o <<"map", "train_test_split", "SFTTrainer", "train">>

DownloadErrors == {"get_artifact raised", "download raised"}
GuardErrors == {"RuntimeError: Artifact has no assets",
                "RuntimeError: Artifact has more than one asset"}
LoadErrors == {"IndexError", "open raised"}

\* C1: once _artifact_to_asset has acted on a downloaded artifact, an artifact
\* with no asset or with more than one has raised and returned nothing, and an
\* artifact with exactly one asset has yielded that asset; _load_data is only
\* ever called for an artifact with exactly one asset.
C1_AssetGuard ==
    /\ (artifact # None /\ pc # "artifact_to_asset") =>
          LET assets == artifact[1] IN
          /\ Len(assets) = 0 =>
                /\ pc = "raised"
                /\ error = "RuntimeError: Artifact has no assets"
                /\ asset = None
          /\ Len(assets) > 1 =>
                /\ pc = "raised"
                /\ error = "RuntimeError: Artifact has more than one asset"
                /\ asset = None
          /\ Len(assets) = 1 =>
                /\ asset = Some(assets[1])
                /\ error \notin GuardErrors
    /\ asset # None => artifact # None /\ Len(artifact[1]) = 1
    /\ "_load_data" \in Range(calls) => artifact # None /\ Len(artifact[1]) = 1

C1_Witness ==
    /\ artifact # None
    /\ Len(artifact[1]) > 1
    /\ pc = "raised"
    /\ error = "RuntimeError: Artifact has more than one asset"

\* C2: when check_if_huggingface_model_exists has ended, a successful lookup
\* has returned model_id, a RepositoryNotFoundError has returned default_value,
\* any other failure has propagated and returned nothing; a returned value is
\* always one of the two arguments.
C2_CheckModel ==
    (entry = "check_model" /\ pc \in {"done", "raised"}) =>
        /\ chk.lookup = "ok" => pc = "done" /\ ret = Some(chk.model_id)
        /\ chk.lookup = "RepositoryNotFoundError" =>
              pc = "done" /\ ret = Some(chk.default_value)
        /\ chk.lookup \notin {"ok", "RepositoryNotFoundError"} =>
              pc = "raised" /\ ret = None /\ error = chk.lookup
        /\ ret # None => ret[1] \in {chk.model_id, chk.default_value}

C2_Witness ==
    /\ entry = "check_model"
    /\ pc = "done"
    /\ chk.lookup = "RepositoryNotFoundError"
    /\ chk.model_id # chk.default_value
    /\ ret = Some(chk.default_value)

\* C3: the library calls of finetune are always made in the one fixed order
\* load model, download, format, construct trainer, train; train is called at
\* most once, only after the download and the formatting have completed, and
\* never when the download, the asset guard or the data load raised.
C3_FinetuneOrder ==
    InFinetune =>
        LET expected == FinetuneCalls(ft_args.is_dummy) IN
        /\ IsPrefix(Prefix(calls, Len(expected)), expected)
        /\ Count(calls, "train") <= 1
        /\ "train" \in Range(calls) =>
              /\ Prefix(calls, Len(expected)) = expected
              /\ artifact # None /\ asset # None
              /\ NumRows(custom_dataset) > 0
              /\ column_names(dataset) = {"text"}
        /\ error \in DownloadErrors \cup GuardErrors \cup LoadErrors =>
              "train" \notin Range(calls)

C3_Witness ==
    /\ entry = "finetune"
    /\ pc = "done"
    /\ "train" \in Range(calls)
    /\ ~ft_args.is_dummy

\* C4: the retrieval script calls construct, retrieve_top_k(k=6, expansion to 3
\* queries) and rerank(keep_top_k=3) in that order, rerank at most once and
\* exactly once in a run that ends normally, with exactly the hits
\* retrieve_top_k returned; it logs only after rerank returned, one line per
\* reranked hit in rerank's order, with ranks from 0 and the first 100
\* characters of the hit.
C4_RetrieverOrder ==
    entry = "retriever_script" =>
        /\ IsPrefix(calls, <<"VectorRetriever", "retrieve_top_k", "rerank">>)
        /\ "retrieve_top_k" \in Range(calls) =>
              retrieve_args = [k |-> 6, to_expand_to_n_queries |-> 3]
        /\ "rerank" \in Range(calls) =>
              rerank_args = [documents |-> hits, keep_top_k |-> 3]
        /\ log # <<>> =>
              /\ "rerank" \in Range(calls)
              /\ error = ""
              /\ log[1].kind = "header"
        /\ Len(log) <= 1 + Len(reranked_hits)
        /\ \A i \in 2..Len(log) :
              /\ log[i].kind = "hit"
              /\ log[i].rank = i - 2
              /\ log[i].text =
                    Prefix(reranked_hits[i - 1], 100) \o <<".", ".", ".">>
        /\ pc = "done" =>
              /\ Count(calls, "rerank") = 1
              /\ Len(log) = 1 + Len(reranked_hits)

C4_Witness ==
    /\ entry = "retriever_script"
    /\ pc = "done"
    /\ Len(log) = 3
    /\ hits # reranked_hits
    /\ Len(reranked_hits[1]) > 100
    /\ reranked_hits[1] # reranked_hits[2]

\* C5: in the training script, dummy mode is entered only when --is_dummy is
\* set: with is_dummy False finetune does not announce dummy mode, the dataset
\* is not reduced to 400 samples and the trainer gets the --num_train_epochs
\* value that was printed at start-up.
C5_IsDummyFlag ==
    entry = "training_script" =>
        /\ "Training in dummy mode. Reducing dataset size to '400'." \in Range(stdout)
              => args.is_dummy
        /\ "select" \in Range(calls) => args.is_dummy
        /\ (trainer # NoTrainer /\ ~args.is_dummy) =>
              /\ NumRows(dataset) # 400
              /\ stdout[1] = "Num training epochs: '"
                                \o ToString(trainer.num_train_epochs) \o "'"

\* C6: a dummy-mode call hands the trainer 1 epoch and formats the first 400
\* rows of the concatenated dataset; any other call hands the trainer the
\* caller's epochs and formats the custom rows followed by the static rows;
\* the epoch override and the truncation happen together or not at all.
C6_DummyMode ==
    InFinetune =>
        /\ pc = "map" =>
              /\ column_names(dataset) = column_names(custom_dataset)
              /\ \A c \in column_names(dataset) :
                    dataset[c] =
                        IF ft_args.is_dummy
                        THEN SubSeq(custom_dataset[c] \o static_dataset[c], 1, 400)
                        ELSE custom_dataset[c] \o static_dataset[c]
        /\ ("map" \in Range(calls) /\ error # "KeyError") =>
              NumRows(dataset) =
                  IF ft_args.is_dummy THEN 400
                  ELSE NumRows(custom_dataset) + NumRows(static_dataset)
        /\ trainer # NoTrainer =>
              trainer.num_train_epochs =
                  IF ft_args.is_dummy THEN 1 ELSE ft_args.num_train_epochs
        /\ "concatenate_datasets" \in Range(calls) =>
              ("select" \in Range(calls)
                  <=> "Training in dummy mode. Setting num_train_epochs to '1'"
                          \in Range(stdout))

C6_Witness ==
    /\ entry = "finetune"
    /\ pc = "done"
    /\ ft_args.is_dummy
    /\ ft_args.num_train_epochs = 3
    /\ trainer.num_train_epochs = 1
    /\ NumRows(dataset) = 400

\* C7: once the map has returned, the dataset has the one column "text", as
\* long as the dataset that was mapped, and its i-th entry is the Alpaca
\* template filled with the i-th instruction and the i-th content, followed by
\* the EOS token.
C7_FormatSamples ==
    (InFinetune /\ "map" \in Range(calls) /\ error # "KeyError") =>
        LET n == IF ft_args.is_dummy
                 THEN 400
                 ELSE NumRows(custom_dataset) + NumRows(static_dataset)
            instruction ==
                SubSeq(custom_dataset["instruction"] \o static_dataset["instruction"],
                       1, n)
            content ==
                SubSeq(custom_dataset["content"] \o static_dataset["content"], 1, n)
        IN  /\ column_names(dataset) = {"text"}
            /\ Len(dataset["text"]) = Len(instruction)
            /\ Len(dataset["text"]) = Len(content)
            /\ \A i \in 1..n :
                  dataset["text"][i] =
                      ALPACA_HEAD \o instruction[i] \o ALPACA_MID \o content[i]
                          \o ft.EOS_TOKEN

C7_Witness ==
    /\ InFinetune
    /\ "map" \in Range(calls)
    /\ error = ""
    /\ "author_id" \in column_names(custom_dataset)
    /\ NumRows(custom_dataset) = 2
    /\ NumRows(dataset) > 400
    /\ dataset["text"][2] =
          ALPACA_HEAD \o "custom.instruction.2" \o ALPACA_MID \o "custom.content.2"
              \o ft.EOS_TOKEN

DownloadActed == InFinetune /\ "get_artifact" \in Range(calls)

\* C8 as claimed: whether _download_artifact returned or raised, the experiment
\* has been ended exactly once, and a failure returned no artifact.
C8_EndsOnEveryPath ==
    DownloadActed =>
        /\ experiment_ended = 1
        /\ error \in DownloadErrors => artifact = None

\* C8, amended: _download_artifact ends the experiment exactly once when the
\* fetch and the download both succeed, as its last call before it returns
\* the artifact; when either raises, the experiment is not ended, the error
\* is re-raised and no artifact is returned.
C8_EndsOnSuccessOnly ==
    DownloadActed =>
        /\ experiment_ended <= 1
        /\ experiment_ended = Count(calls, "experiment.end")
        /\ artifact # None =>
              /\ experiment_ended = 1
              /\ error \notin DownloadErrors
              /\ Precedes(calls, "download", "experiment.end")
        /\ artifact = None =>
              /\ experiment_ended = 0
              /\ pc = "raised"
              /\ error \in DownloadErrors

C8_Witness ==
    /\ DownloadActed
    /\ error = "download raised"
    /\ pc = "raised"
    /\ experiment_ended = 0
    /\ artifact = None

\* C9: save_model saves locally first and at most once; it pushes only when
\* push_to_hub is true and repo_id is a non-empty string, only after the local
\* save returned, and it always pushes then; in the training script the local
\* save comes after train and inference, both of which returned.
C9_SaveModel ==
    entry \in {"training_script", "save_model"} =>
        LET wanted == sm.push_to_hub /\ sm.repo_id # None /\ sm.repo_id[1] # "" IN
        /\ Count(calls, "save_pretrained_merged") <= 1
        /\ Count(calls, "push_to_hub_merged") <= 1
        /\ pc = "push" => wanted
        /\ "push_to_hub_merged" \in Range(calls) =>
              /\ wanted
              /\ Precedes(calls, "save_pretrained_merged", "push_to_hub_merged")
              /\ error # "save_pretrained_merged raised"
        /\ pc = "done" /\ "save_pretrained_merged" \in Range(calls) =>
              ("push_to_hub_merged" \in Range(calls) <=> wanted)
        /\ (entry = "training_script" /\ "save_pretrained_merged" \in Range(calls)) =>
              /\ Count(calls, "train") = 1
              /\ Count(calls, "inference") = 1
              /\ Precedes(calls, "train", "inference")
              /\ Precedes(calls, "inference", "save_pretrained_merged")
              /\ error \in {"", "save_pretrained_merged raised",
                            "push_to_hub_merged raised"}

C9_Witness ==
    /\ entry = "training_script"
    /\ pc = "done"
    /\ "push_to_hub_merged" \in Range(calls)
    /\ calls[Len(calls) - 1] = "save_pretrained_merged"

====
